---- MODULE Spec2Model ----
(***************************************************************************)
(* Components of the Fabric theme: the sticky header controller           *)
(* (HeaderComponent) with its companion logic for the header group, the    *)
(* accordion (AccordionCustom) and the scroll indicator (ScrollIndicator). *)
(* Each component has its own specification; the others stand still in it. *)
(*                                                                         *)
(* For the header:                                                         *)
(* The state is the element's private fields, the DOM attributes and       *)
(* classes it writes, and the part of the browser that holds its          *)
(* registrations: the timers and animation frames it has scheduled, its    *)
(* two observers and its listeners.  The geometry a handler reads (window  *)
(* width, scroll offset, header top, intersection ratio) is an input of    *)
(* the step that reads it.  Lengths are in CSS pixels, times in            *)
(* milliseconds and intersection ratios in hundredths (0.95 is 95).        *)
(***************************************************************************)
EXTENDS Integers, FiniteSets, Sequences, TLC

\* ------------------------------------------------------------------------
\* Bounds of the model
\* ------------------------------------------------------------------------

\* Granularity of the clock: one Tick advances time by this many ms.
TickMs == 50

\* Elapsed time of a pending timer is tracked up to this many ms.
MaxElapsed == 150

\* Viewport widths are WidthStep * 1..MaxWidthIndex.
MaxWidthIndex == 2

WidthStep == 400

Widths == {WidthStep * i : i \in 1..MaxWidthIndex}

\* Header heights reported to the size observer.
Heights == {0, 64}

\* Document scroll offsets (document.scrollingElement.scrollTop).
ScrollOffsets == {0, 5, 300, 500}

\* Values of this.getBoundingClientRect().top.
HeaderTops == {-6, -5, 0}

\* Intersection ratios of the header with the viewport, in hundredths.
Ratios == {0, 94, 95, 100}

\* navigator.userAgent, as the set of product tokens the regular
\* expressions of connectedCallback look for, with window.MSStream.
Platforms ==
    { [ua |-> {"Safari"},                    ms |-> FALSE],
      [ua |-> {"iPhone", "Safari"},          ms |-> FALSE],
      [ua |-> {"iPhone", "Safari", "CriOS"}, ms |-> FALSE],
      [ua |-> {"iPhone", "Safari"},          ms |-> TRUE] }

\* Values of the sticky attribute ("absent" is getAttribute() === null).
StickyModes == {"absent", "scroll-up", "always"}

\* ------------------------------------------------------------------------
\* JavaScript values
\* ------------------------------------------------------------------------

\* null.  Numbers of the program are >= 0 or header tops, never Null.
Null == -1

\* ToBoolean of a number-or-null: null and 0 are falsy.
Truthy(x) == x # Null /\ x # 0

\* `${height}px`
Px(h) == [value |-> h, unit |-> "px"]

\* A custom property that was never set.
Unset == [value |-> Null, unit |-> ""]

VARIABLES
    \* --- the browser ---
    platform,           \* navigator.userAgent and window.MSStream
    connected,          \* the element is in the document
    timers,             \* pending setTimeout callbacks: [id, delay, elapsed]
    frames,             \* ids of pending requestAnimationFrame callbacks
    resizeObserving,    \* #resizeObserver observes the header
    ioObserving,        \* #intersectionObserver observes the header
    ioPrevIndex,        \* the observation's previousThresholdIndex
    scrollListener,     \* document has the "scroll" listener
    overflowListener,   \* the element has the "overflowMinimum" listener
    \* --- DOM written by the component ---
    sticky,             \* the sticky attribute
    stickyState,        \* data-sticky-state
    scrollDirection,    \* data-scroll-direction
    animating,          \* data-animating is present
    drawerDesktopHidden,\* headerDrawerContainer has class desktop:hidden
    headerMenuHidden,   \* headerMenu has class hidden
    headerHeight,       \* --header-height on document.body
    effects,            \* calls made by the last step, as caller.callee
    \* --- private fields ---
    menuDrawerHiddenWidth,
    intersectionObserver,
    offscreen,
    lastScrollTop,
    timeout,
    isIOSSafari,
    safariIntersectionTimeout

envVars == <<platform, connected>>
schedVars == <<timers, frames>>
observerVars == <<resizeObserving, ioObserving, ioPrevIndex, scrollListener,
                  overflowListener, intersectionObserver>>
stickyVars == <<stickyState, scrollDirection, animating, offscreen,
                lastScrollTop, timeout, safariIntersectionTimeout>>
menuVars == <<drawerDesktopHidden, headerMenuHidden, menuDrawerHiddenWidth>>

vars == <<platform, connected,
          timers, frames, resizeObserving, ioObserving, ioPrevIndex,
          scrollListener, overflowListener, sticky, stickyState,
          scrollDirection, animating, drawerDesktopHidden, headerMenuHidden,
          headerHeight, effects, menuDrawerHiddenWidth, intersectionObserver,
          offscreen, lastScrollTop, timeout, isIOSSafari,
          safariIntersectionTimeout>>

\* ------------------------------------------------------------------------
\* The other components of the page
\* ------------------------------------------------------------------------

VARIABLES
    \* --- companion logic of the header (onDocumentLoaded callback) ---
    documentLoaded,     \* the callback has run
    header,             \* the document's #header-component (its const header)
    headerGroup,        \* the document's #header-group (its const headerGroup)
    groupChildren,      \* headerGroup.children
    sizeObserved,       \* the targets of its resizeObserver
    mutationObserving,  \* its mutationObserver observes headerGroup
    mutationRecords,    \* childList records are queued for its callback
    \* --- accordion-custom elements under one parent ---
    supportsInterpolateSize, \* CSS.supports('interpolate-size', ...)
    isMobile,           \* isMobileBreakpoint()
    dataset,            \* per accordion: its data- and open-by-default attributes
    attached,           \* per accordion: the element is in the document
    aborted,            \* per accordion: #controller.signal.aborted
    listening,          \* per accordion: its three listeners are registered
    open,               \* per accordion: details.open
    animation,          \* per accordion: #animation
    animations,         \* the Animation objects with a callback to come
    lastInput,          \* the last event that came from outside
    \* --- scroll indicator ---
    constructed,        \* new ScrollIndicator(element) has run
    scrollY,            \* window.scrollY
    maxScroll,          \* documentElement.scrollHeight - window.innerHeight
    strokeDashoffset,   \* of the progress circle, in thousandths of its length
    isAtBottom,         \* this.isAtBottom
    atBottomClass,      \* element has class scroll-indicator--at-bottom
    opacity,            \* element.style.opacity, in thousandths
    pointerEvents,      \* element.style.pointerEvents
    scrollTarget        \* top of the last window.scrollTo()

groupVars == <<documentLoaded, header, headerGroup, groupChildren,
               sizeObserved, mutationObserving, mutationRecords>>

\* The elements a header group may hold; "icon" is an SVG element, the
\* others are HTML elements.
HeaderElement == "header-component"
GroupElement == "header-group"
\* querySelector found no element.
NoElement == "null"
GroupElements == {HeaderElement, "announcement", "banner", "icon"}
IsHTMLElement(e) == e # "icon"

\* A page without a header group, whose callback has not run.
NoHeaderGroup ==
    /\ documentLoaded = FALSE
    /\ header = HeaderElement
    /\ headerGroup = NoElement
    /\ groupChildren = {}
    /\ sizeObserved = {}
    /\ mutationObserving = FALSE
    /\ mutationRecords = FALSE

accordionVars == <<supportsInterpolateSize, isMobile, dataset, attached,
                   aborted, listening, open, animation, animations,
                   lastInput>>

\* Most Animation objects that have a callback to come at one time.
MaxAnimations == 2

\* #animation === null
NoAnimation == Null

\* The accordion-custom elements of one parent element.
Accordions == {"first", "second"}

\* The attributes an accordion is written with in the markup: a plain one,
\* one that is open and fixed on desktop, and a menu that is open by
\* default, fixed on mobile and closes with Escape.
Datasets ==
    { [disableOnMobile |-> FALSE, disableOnDesktop |-> FALSE,
       closeWithEscape |-> FALSE, openByDefaultOnMobile |-> FALSE,
       openByDefaultOnDesktop |-> FALSE],
      [disableOnMobile |-> FALSE, disableOnDesktop |-> TRUE,
       closeWithEscape |-> FALSE, openByDefaultOnMobile |-> FALSE,
       openByDefaultOnDesktop |-> TRUE],
      [disableOnMobile |-> TRUE, disableOnDesktop |-> FALSE,
       closeWithEscape |-> TRUE, openByDefaultOnMobile |-> TRUE,
       openByDefaultOnDesktop |-> TRUE] }

\* No event has come from outside yet.
NoInput == [kind |-> "none", target |-> "none"]

\* The accordions as constructed, before any is attached.
Constructed ==
    /\ attached = [a \in Accordions |-> FALSE]
    /\ aborted = [a \in Accordions |-> FALSE]
    /\ listening = [a \in Accordions |-> FALSE]
    /\ open = [a \in Accordions |-> FALSE]
    /\ animation = [a \in Accordions |-> NoAnimation]
    /\ animations = <<>>
    /\ lastInput = NoInput

\* A page whose accordions are never attached.
NoAccordions ==
    /\ supportsInterpolateSize = FALSE
    /\ isMobile = FALSE
    /\ dataset = [a \in Accordions |->
                     [disableOnMobile |-> FALSE, disableOnDesktop |-> FALSE,
                      closeWithEscape |-> FALSE,
                      openByDefaultOnMobile |-> FALSE,
                      openByDefaultOnDesktop |-> FALSE]]
    /\ Constructed

indicatorVars == <<constructed, scrollY, maxScroll, strokeDashoffset,
                   isAtBottom, atBottomClass, opacity, pointerEvents,
                   scrollTarget>>

\* A page without a #scrollIndicator element.
NoIndicator ==
    /\ constructed = FALSE
    /\ scrollY = 0
    /\ maxScroll = 0
    /\ strokeDashoffset = Null
    /\ isAtBottom = FALSE
    /\ atBottomClass = FALSE
    /\ opacity = Null
    /\ pointerEvents = "unset"
    /\ scrollTarget = Null

\* What a step of one component leaves alone.
otherComponents == <<groupVars, accordionVars, indicatorVars>>
outsideGroup == <<vars, accordionVars, indicatorVars>>
outsideAccordion == <<vars, groupVars, indicatorVars>>
outsideIndicator == <<vars, groupVars, accordionVars>>

allVars == <<vars, groupVars, accordionVars, indicatorVars>>

\* ------------------------------------------------------------------------
\* Browser primitives
\* ------------------------------------------------------------------------

\* A handle no pending callback and no field of the program holds.
FreshId(used) == CHOOSE i \in 1..(Cardinality(used) + 1) : i \notin used

\* setTimeout(cb, delay) on the timer set ts; id is the returned handle.
SetTimeout(ts, id, delay) == ts \cup {[id |-> id, delay |-> delay, elapsed |-> 0]}

\* clearTimeout(id)
ClearTimeout(ts, id) == {tm \in ts : tm.id # id}

\* cancelAnimationFrame(id)
CancelAnimationFrame(fs, id) == fs \ {id}

TimerIds(ts) == {tm.id : tm \in ts}

\* IntersectionObserver: index of the first threshold above the ratio, for
\* an observer with the single threshold t; 0 when the target does not
\* intersect the root.  entry.isIntersecting is (index > 0).
ThresholdIndex(r, t) == IF r > 0 /\ r >= t THEN 1 ELSE 0

\* A field that holds no IntersectionObserver (#intersectionObserver = null).
NoObserver == [exists |-> FALSE, threshold |-> 0, alwaysSticky |-> FALSE]

\* Mutant of NewObserver: the threshold of always mode is 1.0, not 0.95.
NewObserver_fullThreshold(alwaysSticky) ==
    [exists |-> TRUE,
     threshold |-> IF alwaysSticky THEN 100 ELSE 0,
     alwaysSticky |-> alwaysSticky]

\* new IntersectionObserver(intersectionCallback, config) of
\* #observeStickyPosition, with the alwaysSticky its callback closes over.
NewObserver(alwaysSticky) ==
    [exists |-> TRUE,
     threshold |-> IF alwaysSticky THEN 95 ELSE 0,
     alwaysSticky |-> alwaysSticky]

\* Mutant of animationDelay: the timer is set for a delay 50 ms too short.
animationDelay_short == 150 - 50

\* The hide-animation delay, in ms.
animationDelay == 150

\* The platform test of connectedCallback.
DetectIOSSafari(p) ==
    LET isIOS == ({"iPhone", "iPad", "iPod"} \cap p.ua # {}) /\ ~p.ms
    IN  isIOS /\ "Safari" \in p.ua /\ ({"CriOS", "FxiOS"} \cap p.ua = {})

\* Mutant of SafariState: a scroll offset of exactly 5 is not at the top.
SafariState_strict(top, scroll) ==
    IF top >= -5 /\ scroll < 5 THEN "inactive" ELSE "active"

\* Mutant of SafariState: the inactive state is misspelt.
SafariState_misspelt(top, scroll) ==
    IF top >= -5 /\ scroll <= 5 THEN "in-active" ELSE "active"

\* The sticky state the iOS-Safari path derives from the geometry.
SafariState(top, scroll) ==
    IF top >= -5 /\ scroll <= 5 THEN "inactive" ELSE "active"

\* ------------------------------------------------------------------------
\* Initial state: the element is constructed and not yet connected.  The
\* fields have their initialisers; the component has written no attribute
\* yet, and the markup shows the inline menu (the drawer container carries
\* desktop:hidden, the menu does not carry hidden).
\* ------------------------------------------------------------------------
Init ==
    /\ platform \in Platforms
    /\ sticky \in StickyModes
    /\ connected = FALSE
    /\ timers = {}
    /\ frames = {}
    /\ resizeObserving = FALSE
    /\ ioObserving = FALSE
    /\ ioPrevIndex = -1
    /\ scrollListener = FALSE
    /\ overflowListener = FALSE
    /\ stickyState = "unset"
    /\ scrollDirection = "unset"
    /\ animating = FALSE
    /\ drawerDesktopHidden = TRUE
    /\ headerMenuHidden = FALSE
    /\ headerHeight = Unset
    /\ effects = {}
    /\ menuDrawerHiddenWidth = Null
    /\ intersectionObserver = NoObserver
    /\ offscreen = FALSE
    /\ lastScrollTop = 0
    /\ timeout = Null
    /\ isIOSSafari = FALSE
    /\ safariIntersectionTimeout = Null

\* ------------------------------------------------------------------------
\* Menu visibility
\* ------------------------------------------------------------------------

\* Mutant of updateMenuVisibility: showing the menu keeps the recorded width.
updateMenuVisibility_keepsWidth(hideMenu, w) ==
    /\ drawerDesktopHidden' = ~hideMenu
    /\ menuDrawerHiddenWidth' = IF hideMenu THEN w ELSE menuDrawerHiddenWidth
    /\ headerMenuHidden' = hideMenu

\* #updateMenuVisibility(hideMenu), with w the window.innerWidth it reads.
updateMenuVisibility(hideMenu, w) ==
    /\ drawerDesktopHidden' = ~hideMenu
    /\ menuDrawerHiddenWidth' = IF hideMenu THEN w ELSE Null
    /\ headerMenuHidden' = hideMenu

\* Mutant of ShouldRestoreMenu: the recorded width is not tested for null
\* (w > null is w > 0).
ShouldRestoreMenu_noNullTest(w) ==
    w > (IF menuDrawerHiddenWidth = Null THEN 0 ELSE menuDrawerHiddenWidth)

\* Mutant of ShouldRestoreMenu: restores at the recorded width already.
ShouldRestoreMenu_atWidth(w) ==
    Truthy(menuDrawerHiddenWidth) /\ w >= menuDrawerHiddenWidth

\* The test of the size observer's callback before it restores the menu.
ShouldRestoreMenu(w) ==
    Truthy(menuDrawerHiddenWidth) /\ w > menuDrawerHiddenWidth

\* The callback of #resizeObserver for an entry of height h, with w the
\* window.innerWidth at that time.
resizeObserverCallback(w, h) ==
    /\ headerHeight' = Px(h)
    /\ IF ShouldRestoreMenu(w)
       THEN /\ updateMenuVisibility(FALSE, w)
            /\ effects' = {"resizeObserver.updateMenuVisibility"}
       ELSE /\ UNCHANGED menuVars
            /\ effects' = {}

\* The layout changes: the header becomes h high while the viewport is w
\* wide; the size observer, when it observes the header, reports it.
SizeChange(w, h) ==
    /\ IF resizeObserving
       THEN resizeObserverCallback(w, h)
       ELSE UNCHANGED <<headerHeight, menuVars>> /\ effects' = {}
    /\ UNCHANGED <<otherComponents, envVars, schedVars, observerVars, sticky, stickyVars,
                   isIOSSafari>>

\* #handleOverflowMinimum(event) with event.detail.minimumReached, while
\* window.innerWidth is w.
handleOverflowMinimum(minimumReached, w) ==
    /\ updateMenuVisibility(minimumReached, w)
    /\ effects' = {"handleOverflowMinimum.updateMenuVisibility"}

\* The header menu dispatches overflowMinimum on the element while the
\* viewport is w wide.
OverflowMinimum(minimumReached, w) ==
    /\ IF overflowListener
       THEN handleOverflowMinimum(minimumReached, w)
       ELSE UNCHANGED menuVars /\ effects' = {}
    /\ UNCHANGED <<otherComponents, envVars, schedVars, observerVars, sticky, stickyVars,
                   headerHeight, isIOSSafari>>

\* ------------------------------------------------------------------------
\* Intersection
\* ------------------------------------------------------------------------

\* Mutant of handleIntersectionUpdate: no early return on iOS Safari.
handleIntersectionUpdate_noSafariReturn(isIntersecting, alwaysSticky) ==
    IF alwaysSticky
    THEN /\ stickyState' = IF isIntersecting THEN "inactive" ELSE "active"
         /\ effects' = {"handleIntersectionUpdate.changeMetaThemeColor"}
         /\ UNCHANGED offscreen
    ELSE /\ offscreen' = (~isIntersecting \/ stickyState = "active")
         /\ effects' = {}
         /\ UNCHANGED stickyState

\* Mutant of handleIntersectionUpdate: offscreen ignores the active state.
handleIntersectionUpdate_ignoresActive(isIntersecting, alwaysSticky) ==
    IF alwaysSticky
    THEN IF isIOSSafari
         THEN UNCHANGED <<stickyState, offscreen>> /\ effects' = {}
         ELSE /\ stickyState' = IF isIntersecting THEN "inactive" ELSE "active"
              /\ effects' = {"handleIntersectionUpdate.changeMetaThemeColor"}
              /\ UNCHANGED offscreen
    ELSE /\ offscreen' = ~isIntersecting
         /\ effects' = {}
         /\ UNCHANGED stickyState

\* #handleIntersectionUpdate(entry, alwaysSticky), entry.isIntersecting given.
handleIntersectionUpdate(isIntersecting, alwaysSticky) ==
    IF alwaysSticky
    THEN IF isIOSSafari
         THEN UNCHANGED <<stickyState, offscreen>> /\ effects' = {}
         ELSE /\ stickyState' = IF isIntersecting THEN "inactive" ELSE "active"
              /\ effects' = {"handleIntersectionUpdate.changeMetaThemeColor"}
              /\ UNCHANGED offscreen
    ELSE /\ offscreen' = (~isIntersecting \/ stickyState = "active")
         /\ effects' = {}
         /\ UNCHANGED stickyState

\* The browser notifies the observer of an entry with intersection ratio r:
\* the header's threshold index differs from the one of the previous
\* notification (always so for the first one after observe()).  The
\* callback passes the entry to the handler.
intersectionCallback(r) ==
    LET index == ThresholdIndex(r, intersectionObserver.threshold) IN
    /\ ioObserving
    /\ index # ioPrevIndex
    /\ ioPrevIndex' = index
    /\ handleIntersectionUpdate(index > 0, intersectionObserver.alwaysSticky)
    /\ UNCHANGED <<otherComponents, envVars, schedVars, resizeObserving, ioObserving,
                   scrollListener, overflowListener, intersectionObserver,
                   sticky, scrollDirection, animating, lastScrollTop, timeout,
                   safariIntersectionTimeout, menuVars, headerHeight,
                   isIOSSafari>>

\* #observeStickyPosition(alwaysSticky)
observeStickyPosition(alwaysSticky) ==
    IF intersectionObserver.exists
    THEN UNCHANGED <<intersectionObserver, ioObserving, ioPrevIndex>>
    ELSE /\ intersectionObserver' = NewObserver(alwaysSticky)
         /\ ioObserving' = TRUE
         /\ ioPrevIndex' = -1

\* ------------------------------------------------------------------------
\* Scroll
\* ------------------------------------------------------------------------

\* Mutant of IsAtTop: a header exactly at the top does not count.
IsAtTop_strict(top) == top > 0

\* Mutant of IsAtTop: the comparison is the wrong way round.
IsAtTop_reversed(top) == top <= 0

\* isAtTop of #handleWindowScroll, with top the header's
\* getBoundingClientRect().top.
IsAtTop(top) == top >= 0

\* Mutant of IsScrollingUp: the comparison is the wrong way round.
IsScrollingUp_reversed(s) == s > lastScrollTop

\* Mutant of IsScrollingUp: an unchanged offset counts as scrolling up.
IsScrollingUp_orEqual(s) == s <= lastScrollTop

\* isScrollingUp of #handleWindowScroll
IsScrollingUp(s) == s < lastScrollTop

\* Mutant of TimersAfterClear: a pending timer is not cleared.
TimersAfterClear_kept == timers

\* The timers left after the clearTimeout of a pending #timeout.
TimersAfterClear ==
    IF Truthy(timeout) THEN ClearTimeout(timers, timeout) ELSE timers

\* Mutant of SkipsScroll: the test of the mode is the wrong way round.
SkipsScroll_reversed(stickyMode) == ~offscreen /\ stickyMode = "always"

\* The early return of #handleWindowScroll.
SkipsScroll(stickyMode) == ~offscreen /\ stickyMode # "always"

\* The body of #handleWindowScroll, with stickyMode the value of the sticky
\* attribute, s the scroll offset and top the header's top it reads.
handleWindowScrollIn(stickyMode, s, top) ==
    IF SkipsScroll(stickyMode)
    THEN UNCHANGED <<schedVars, stickyVars>>
    ELSE IF stickyMode = "always"
    THEN /\ timers' = TimersAfterClear
         /\ timeout' = IF Truthy(timeout) THEN Null ELSE timeout
         /\ IF isIOSSafari /\ safariIntersectionTimeout = Null
            THEN LET id == FreshId(frames) IN
                 /\ frames' = frames \cup {id}
                 /\ safariIntersectionTimeout' = id
            ELSE UNCHANGED <<frames, safariIntersectionTimeout>>
         /\ scrollDirection' = IF IsAtTop(top) THEN "none"
                               ELSE IF IsScrollingUp(s) THEN "up" ELSE "down"
         /\ lastScrollTop' = s
         /\ UNCHANGED <<stickyState, animating, offscreen>>
    ELSE IF IsScrollingUp(s)
    THEN /\ timers' = TimersAfterClear
         /\ timeout' = IF Truthy(timeout) THEN Null ELSE timeout
         /\ animating' = FALSE
         /\ IF IsAtTop(top)
            THEN /\ offscreen' = FALSE
                 /\ stickyState' = "inactive"
                 /\ scrollDirection' = "none"
            ELSE /\ stickyState' = "active"
                 /\ scrollDirection' = "up"
                 /\ UNCHANGED offscreen
         /\ lastScrollTop' = s
         /\ UNCHANGED <<frames, safariIntersectionTimeout>>
    ELSE IF stickyState = "active"
    THEN LET id == FreshId(TimerIds(TimersAfterClear) \cup {timeout}) IN
         /\ scrollDirection' = "none"
         /\ animating' = TRUE
         /\ timers' = SetTimeout(TimersAfterClear, id, animationDelay)
         /\ timeout' = id
         /\ lastScrollTop' = s
         /\ UNCHANGED <<stickyState, offscreen, frames,
                        safariIntersectionTimeout>>
    ELSE /\ timers' = TimersAfterClear
         /\ timeout' = IF Truthy(timeout) THEN Null ELSE timeout
         /\ scrollDirection' = "none"
         /\ stickyState' = "idle"
         /\ lastScrollTop' = s
         /\ UNCHANGED <<animating, offscreen, frames,
                        safariIntersectionTimeout>>

\* #handleWindowScroll: the sticky attribute is read when the event is handled.
handleWindowScroll(s, top) == handleWindowScrollIn(sticky, s, top)

\* Mutant of Scroll: the handler finds no scrolling element and reads 0.
Scroll_noScrollingElement(s, top) ==
    /\ IF scrollListener
       THEN handleWindowScroll(0, top)
       ELSE UNCHANGED <<schedVars, stickyVars>>
    /\ effects' = {}
    /\ UNCHANGED <<otherComponents, envVars, observerVars, sticky, menuVars, headerHeight,
                   isIOSSafari>>

\* The document has scrolled to offset s, where the header's top is at top:
\* the scroll event is dispatched to the listener, if any.
Scroll(s, top) ==
    /\ IF scrollListener
       THEN handleWindowScroll(s, top)
       ELSE UNCHANGED <<schedVars, stickyVars>>
    /\ effects' = {}
    /\ UNCHANGED <<otherComponents, envVars, observerVars, sticky, menuVars, headerHeight,
                   isIOSSafari>>

\* The callback of the hide timer (setTimeout of #handleWindowScroll) runs:
\* never before its delay has elapsed.
hideTimeout ==
    \E tm \in timers :
        /\ tm.elapsed >= tm.delay
        /\ timers' = timers \ {tm}
        /\ stickyState' = "idle"
        /\ animating' = FALSE
        /\ effects' = {}
        /\ UNCHANGED <<otherComponents, envVars, frames, observerVars, sticky, scrollDirection,
                       offscreen, lastScrollTop, timeout,
                       safariIntersectionTimeout, menuVars, headerHeight,
                       isIOSSafari>>

\* The callback of requestAnimationFrame of the iOS-Safari path runs, while
\* the scroll offset is s and the header's top is at top.
safariFrame(s, top) ==
    \E id \in frames :
        LET currentNewState == SafariState(top, s) IN
        /\ frames' = frames \ {id}
        /\ safariIntersectionTimeout' = Null
        /\ IF stickyState # currentNewState
           THEN /\ stickyState' = currentNewState
                /\ effects' = {"handleWindowScroll.changeMetaThemeColor"}
           ELSE /\ UNCHANGED stickyState
                /\ effects' = {}
        /\ UNCHANGED <<otherComponents, envVars, timers, observerVars, sticky, scrollDirection,
                       animating, offscreen, lastScrollTop, timeout, menuVars,
                       headerHeight, isIOSSafari>>

\* Time passes.
Tick ==
    /\ timers # {}
    /\ timers' = {[tm EXCEPT !.elapsed =
                      IF tm.elapsed + TickMs > MaxElapsed
                      THEN MaxElapsed ELSE tm.elapsed + TickMs] : tm \in timers}
    /\ effects' = {}
    /\ UNCHANGED <<otherComponents, envVars, frames, observerVars, sticky, stickyVars,
                   menuVars, headerHeight, isIOSSafari>>

\* ------------------------------------------------------------------------
\* Lifecycle
\* ------------------------------------------------------------------------

\* Mutant of connectedCallback: the sticky state is initialised on attach.
connectedCallback_initState ==
    LET stickyMode == sticky IN
    /\ ~connected
    /\ connected' = TRUE
    /\ resizeObserving' = TRUE
    /\ overflowListener' = TRUE
    /\ isIOSSafari' = DetectIOSSafari(platform)
    /\ IF stickyMode # "absent"
       THEN /\ observeStickyPosition(stickyMode = "always")
            /\ scrollListener' =
                  (scrollListener \/ stickyMode \in {"scroll-up", "always"})
       ELSE UNCHANGED <<intersectionObserver, ioObserving, ioPrevIndex,
                        scrollListener>>
    /\ effects' = {}
    /\ stickyState' = "inactive"
    /\ UNCHANGED <<otherComponents, platform, schedVars, sticky, scrollDirection, animating,
                   offscreen, lastScrollTop, timeout,
                   safariIntersectionTimeout, menuVars, headerHeight>>

connectedCallback ==
    LET stickyMode == sticky IN
    /\ ~connected
    /\ connected' = TRUE
    /\ resizeObserving' = TRUE
    /\ overflowListener' = TRUE
    /\ isIOSSafari' = DetectIOSSafari(platform)
    /\ IF stickyMode # "absent"
       THEN /\ observeStickyPosition(stickyMode = "always")
            /\ scrollListener' =
                  (scrollListener \/ stickyMode \in {"scroll-up", "always"})
       ELSE UNCHANGED <<intersectionObserver, ioObserving, ioPrevIndex,
                        scrollListener>>
    /\ effects' = {}
    /\ UNCHANGED <<otherComponents, platform, schedVars, sticky, stickyVars, menuVars,
                   headerHeight>>

disconnectedCallback ==
    /\ connected
    /\ connected' = FALSE
    /\ resizeObserving' = FALSE
    /\ ioObserving' = FALSE
    /\ overflowListener' = FALSE
    /\ scrollListener' = FALSE
    /\ timers' = TimersAfterClear
    /\ timeout' = IF Truthy(timeout) THEN Null ELSE timeout
    /\ frames' = IF safariIntersectionTimeout # Null
                 THEN CancelAnimationFrame(frames, safariIntersectionTimeout)
                 ELSE frames
    /\ safariIntersectionTimeout' = Null
    /\ headerHeight' = Px(0)
    /\ effects' = {}
    /\ UNCHANGED <<otherComponents, platform, ioPrevIndex, intersectionObserver, sticky, stickyState,
                   scrollDirection, animating, offscreen, lastScrollTop,
                   menuVars, isIOSSafari>>

\* ------------------------------------------------------------------------
\* Specification
\* ------------------------------------------------------------------------
Next ==
    \/ connectedCallback
    \/ disconnectedCallback
    \/ \E w \in Widths, h \in Heights : SizeChange(w, h)
    \/ \E b \in BOOLEAN, w \in Widths : OverflowMinimum(b, w)
    \/ \E r \in Ratios : intersectionCallback(r)
    \/ \E s \in ScrollOffsets, top \in HeaderTops : Scroll(s, top)
    \/ hideTimeout
    \/ \E s \in ScrollOffsets, top \in HeaderTops : safariFrame(s, top)
    \/ Tick

\* The header on a page where no other component is active.
HeaderInit == Init /\ NoHeaderGroup /\ NoAccordions /\ NoIndicator

Spec == HeaderInit /\ [][Next]_allVars

\* A script of the page sets the sticky attribute of the connected header
\* (the component has no attributeChangedCallback).
setAttributeSticky(mode) ==
    /\ connected
    /\ mode # sticky
    /\ sticky' = mode
    /\ effects' = {}
    /\ UNCHANGED <<otherComponents, envVars, schedVars, observerVars, stickyVars, menuVars,
                   headerHeight, isIOSSafari>>

\* The header is connected once and stays connected, while the page may
\* change its sticky attribute.
NextAttr ==
    \/ connectedCallback
    \/ \E mode \in StickyModes : setAttributeSticky(mode)
    \/ \E w \in Widths, h \in Heights : SizeChange(w, h)
    \/ \E b \in BOOLEAN, w \in Widths : OverflowMinimum(b, w)
    \/ \E r \in Ratios : intersectionCallback(r)
    \/ \E s \in ScrollOffsets, top \in HeaderTops : Scroll(s, top)
    \/ hideTimeout
    \/ \E s \in ScrollOffsets, top \in HeaderTops : safariFrame(s, top)
    \/ Tick

SpecAttr == HeaderInit /\ [][NextAttr]_allVars

TypeOK ==
    /\ stickyState \in {"unset", "inactive", "active", "idle"}
    /\ scrollDirection \in {"unset", "none", "up", "down"}
    /\ animating \in BOOLEAN
    /\ offscreen \in BOOLEAN
    /\ lastScrollTop \in ScrollOffsets

\* ------------------------------------------------------------------------
\* Properties of the sticky header
\* ------------------------------------------------------------------------

\* The hide timer of #handleWindowScroll is pending.
HideTimerPending == \E tm \in timers : tm.id = timeout

\* C1: in scroll-up mode the state goes from active to idle only by the hide
\* timer's callback, which runs no earlier than 150 ms after the downward
\* scroll that set it; data-animating is present as long as that timer is
\* pending and absent right after its callback has run.
C1_IdleOnlyAfterHideDelay ==
    /\ [](sticky = "scroll-up" /\ HideTimerPending => animating)
    /\ [][sticky = "scroll-up" =>
            /\ (stickyState = "active" /\ stickyState' = "idle") =>
                  \E tm \in timers : /\ tm.elapsed >= 150
                                     /\ timers' = timers \ {tm}
            /\ hideTimeout => (stickyState' = "idle" /\ ~animating')]_vars

\* The hide timer has run after a downward scroll in the active state: the
\* state is idle, the flag is gone and #timeout still holds the old handle.
C1_Witness ==
    /\ sticky = "scroll-up"
    /\ stickyState = "idle"
    /\ ~animating
    /\ Truthy(timeout)
    /\ timers = {}

\* C2: in scroll-up mode an upward scroll handled while the header is
\* offscreen and its top is >= 0 sets the state to inactive, the direction
\* to none and clears offscreen, whatever the state was before.
C2_UpAtTopResets ==
    [][\A s \in ScrollOffsets, top \in HeaderTops :
          (/\ sticky = "scroll-up"
           /\ scrollListener
           /\ offscreen
           /\ s < lastScrollTop
           /\ top >= 0
           /\ Scroll(s, top))
          => (/\ stickyState' = "inactive"
              /\ scrollDirection' = "none"
              /\ ~offscreen')]_vars

\* The header was reset at the top after having been offscreen.
C2_Witness ==
    /\ sticky = "scroll-up"
    /\ connected
    /\ stickyState = "inactive"
    /\ scrollDirection = "none"
    /\ ~offscreen
    /\ lastScrollTop < 500

\* C3: in always mode off the iOS-Safari path, after every intersection
\* entry delivered the state is active iff the entry's ratio is below 0.95,
\* and the state changes only when an entry is delivered whose ratio is on
\* the other side of 0.95 than the previous one (or that is the first one).
C3_ActiveIffBelowThreshold ==
    [][(sticky = "always" /\ ~isIOSSafari) =>
         /\ \A r \in Ratios :
               intersectionCallback(r) => ((stickyState' = "active") <=> (r < 95))
                                          /\ stickyState' \in {"active", "inactive"}
         /\ (stickyState' # stickyState) =>
               \E r \in Ratios : /\ intersectionCallback(r)
                                 /\ ioPrevIndex # (IF r >= 95 THEN 1 ELSE 0)]_vars

\* An entry below the threshold was delivered in always mode off iOS Safari.
C3_Witness ==
    /\ sticky = "always"
    /\ connected
    /\ ~isIOSSafari
    /\ ioPrevIndex = 0
    /\ stickyState = "active"

\* C4: disconnectedCallback publishes a --header-height of exactly 0px, and
\* while the header stays disconnected no step changes data-sticky-state,
\* data-scroll-direction, data-animating, the menu visibility or the
\* published height.
C4_DetachedIsInert ==
    [][/\ disconnectedCallback => headerHeight' = Px(0)
       /\ (~connected /\ ~connected') =>
             UNCHANGED <<stickyState, scrollDirection, animating, menuVars,
                         headerHeight>>]_vars

\* The header was disconnected while its hide animation was running.
C4_Witness ==
    /\ ~connected
    /\ headerHeight = Px(0)
    /\ animating
    /\ stickyState = "active"
    /\ timers = {}

\* C5 as stated: with the header offscreen in scroll-up mode and its top
\* negative, the scroll from offset 0 to 500 writes the direction down and
\* the scroll from 500 to 300 writes up.
C5_Original ==
    [][\A top \in HeaderTops :
          (sticky = "scroll-up" /\ scrollListener /\ offscreen /\ top < 0) =>
             /\ (lastScrollTop = 0 /\ Scroll(500, top))
                   => scrollDirection' = "down"
             /\ (lastScrollTop = 500 /\ Scroll(300, top))
                   => scrollDirection' = "up"]_vars

\* C5 as amended: with the header offscreen in scroll-up mode and its top
\* negative, the scroll from offset 0 to 500 writes the direction none and
\* the scroll from 500 to 300 writes up.
C5_DirectionNoneThenUp ==
    [][\A top \in HeaderTops :
          (sticky = "scroll-up" /\ scrollListener /\ offscreen /\ top < 0) =>
             /\ (lastScrollTop = 0 /\ Scroll(500, top))
                   => scrollDirection' = "none"
             /\ (lastScrollTop = 500 /\ Scroll(300, top))
                   => scrollDirection' = "up"]_vars

\* The downward scroll to offset 500 was handled while offscreen.
C5_Witness ==
    /\ sticky = "scroll-up"
    /\ connected
    /\ offscreen
    /\ lastScrollTop = 500
    /\ scrollDirection = "none"
    /\ stickyState = "idle"

\* C6: with the header offscreen in scroll-up mode and its top negative,
\* the upward scroll from offset 500 to 300 leaves the state active, with no
\* hide timer pending that would make it idle.
C6_EndsActive ==
    [][\A top \in HeaderTops :
          (/\ sticky = "scroll-up"
           /\ scrollListener
           /\ offscreen
           /\ top < 0
           /\ lastScrollTop = 500
           /\ Scroll(300, top))
          => (stickyState' = "active" /\ timers' = {} /\ offscreen')]_vars

\* The upward scroll to offset 300 was handled with the top negative.
C6_Witness ==
    /\ sticky = "scroll-up"
    /\ connected
    /\ offscreen
    /\ lastScrollTop = 300
    /\ scrollDirection = "up"
    /\ stickyState = "active"
    /\ timers = {}

C9_SingleTimerAndFrame ==
    /\ Cardinality(timers) <= 1
    /\ Cardinality(frames) <= 1
    /\ timers # {} => HideTimerPending
    /\ frames # {} => frames = {safariIntersectionTimeout}

\* A hide timer is pending that replaced an earlier one.
C9_Witness ==
    /\ \E tm \in timers : tm.id = 2
    /\ timeout = 2

\* C10 as stated: a disconnected header holds its initial state.
C10_NoStateSurvives ==
    ~connected =>
        /\ offscreen = FALSE
        /\ lastScrollTop = 0
        /\ menuDrawerHiddenWidth = Null
        /\ timers = {}
        /\ frames = {}
        /\ ~intersectionObserver.exists
        /\ ~animating

\* The theme-color update of the iOS-Safari frame callback.
SafariThemeColor == {"handleWindowScroll.changeMetaThemeColor"}

\* C11 as stated: the state becomes idle only by the hide timer's callback,
\* in scroll-up mode and from the active state.
C11_Original ==
    [][(stickyState # "idle" /\ stickyState' = "idle") =>
          (sticky = "scroll-up" /\ stickyState = "active" /\ hideTimeout)]_vars

\* C11 as amended: the state becomes idle only in scroll-up mode, either by
\* the hide timer's callback from the active state or directly by a
\* downward scroll handled offscreen in a state other than active; every
\* such scroll makes it idle.
C11_IdleByTimeoutOrDownwardScroll ==
    [][/\ (stickyState # "idle" /\ stickyState' = "idle") =>
            /\ sticky = "scroll-up"
            /\ \/ stickyState = "active" /\ hideTimeout
               \/ /\ stickyState # "active"
                  /\ scrollListener
                  /\ offscreen
                  /\ \E s \in ScrollOffsets, top \in HeaderTops :
                        s >= lastScrollTop /\ Scroll(s, top)
       /\ \A s \in ScrollOffsets, top \in HeaderTops :
            (/\ sticky = "scroll-up"
             /\ scrollListener
             /\ offscreen
             /\ stickyState # "active"
             /\ s >= lastScrollTop
             /\ Scroll(s, top))
            => (stickyState' = "idle" /\ timers' = {} /\ UNCHANGED animating)]_vars

\* A downward scroll made the state idle with no hide timer involved.
C11_Witness ==
    /\ sticky = "scroll-up"
    /\ connected
    /\ offscreen
    /\ stickyState = "idle"
    /\ timeout = Null
    /\ lastScrollTop = 5

\* C12: data-sticky-state changes only in a step of a size change, an
\* intersection entry, a scroll event or the timer or frame callback a
\* scroll scheduled; attach, detach and overflowMinimum leave it unchanged.
C12_StateChangesOnlyOnEvents ==
    [][/\ (stickyState' # stickyState) =>
             \/ \E r \in Ratios : intersectionCallback(r)
             \/ \E s \in ScrollOffsets, top \in HeaderTops : Scroll(s, top)
             \/ hideTimeout
             \/ \E s \in ScrollOffsets, top \in HeaderTops : safariFrame(s, top)
             \/ \E w \in Widths, h \in Heights : SizeChange(w, h)
       /\ (\/ connectedCallback
           \/ disconnectedCallback
           \/ \E b \in BOOLEAN, w \in Widths : OverflowMinimum(b, w))
          => UNCHANGED stickyState]_vars

\* The header was re-attached in the idle state it was detached in.
C12_Witness ==
    /\ connected
    /\ stickyState = "idle"
    /\ ~scrollListener \/ ~ioObserving
    /\ headerHeight = Px(0)

\* C13: in always mode off the iOS-Safari path the state is changed only by
\* intersection entries and scroll events schedule no frame; on the
\* iOS-Safari path it is changed only by the frame callback, and an
\* intersection entry changes neither the state nor the theme color.
C13_SingleDriverInAlwaysMode ==
    [][sticky = "always" =>
         /\ ~isIOSSafari =>
               /\ (stickyState' # stickyState) =>
                      \E r \in Ratios : intersectionCallback(r)
               /\ \A s \in ScrollOffsets, top \in HeaderTops :
                      Scroll(s, top) => UNCHANGED <<stickyState, frames>>
         /\ isIOSSafari =>
               /\ (stickyState' # stickyState) =>
                      \E s \in ScrollOffsets, top \in HeaderTops :
                          safariFrame(s, top)
               /\ \A r \in Ratios :
                      intersectionCallback(r) =>
                          (UNCHANGED stickyState /\ effects' = {})]_vars

\* On iOS Safari an intersection entry below the threshold was delivered
\* and the frame callback has made the header active.
C13_Witness ==
    /\ sticky = "always"
    /\ connected
    /\ isIOSSafari
    /\ ioPrevIndex = 0
    /\ stickyState = "active"
    /\ effects = {}

\* C14: in scroll-up mode an intersection entry changes neither the state,
\* the direction nor data-animating (nor timers, menu or height); it sets
\* offscreen to (not intersecting, or the state is active).
C14_IntersectionOnlySetsOffscreen ==
    [][sticky = "scroll-up" =>
         \A r \in Ratios :
            intersectionCallback(r) =>
               /\ offscreen' = (~(r > 0) \/ stickyState = "active")
               /\ effects' = {}
               /\ UNCHANGED <<stickyState, scrollDirection, animating,
                              lastScrollTop, timeout, schedVars, menuVars,
                              headerHeight>>]_vars

\* The last entry was intersecting, yet offscreen is set: the state was
\* active when it was delivered.
C14_Witness ==
    /\ sticky = "scroll-up"
    /\ connected
    /\ ioPrevIndex = 1
    /\ offscreen
    /\ stickyState = "active"

\* The sticky mode at attach time, for a header that listens to scroll
\* events: the mode its observer was created for.
ModeAtAttach ==
    IF intersectionObserver.alwaysSticky THEN "always" ELSE "scroll-up"

\* C15 as stated: a scroll event is handled according to the sticky mode
\* read at attach time, whatever the attribute is when it is handled.
C15_ModeReadOnce ==
    [][\A s \in ScrollOffsets, top \in HeaderTops :
          (scrollListener /\ Scroll(s, top)) =>
              handleWindowScrollIn(ModeAtAttach, s, top)]_vars

\* C16: data-sticky-state is unset or one of inactive, active, idle and is
\* only ever changed to one of these three; data-scroll-direction is unset
\* or one of none, up, down and only ever changed to one of these;
\* data-animating is present or absent.
C16_AttributeValues ==
    /\ [](/\ stickyState \in {"unset", "inactive", "active", "idle"}
          /\ scrollDirection \in {"unset", "none", "up", "down"}
          /\ animating \in BOOLEAN)
    /\ [][/\ stickyState' # stickyState =>
                stickyState' \in {"inactive", "active", "idle"}
          /\ scrollDirection' # scrollDirection =>
                scrollDirection' \in {"none", "up", "down"}]_vars

\* The iOS-Safari frame callback has written the inactive state.
C16_Witness ==
    /\ isIOSSafari
    /\ stickyState = "inactive"
    /\ scrollDirection = "down"
    /\ effects = SafariThemeColor

\* C17: on the iOS-Safari always-mode path a scroll event never writes the
\* state and leaves exactly one frame pending (the one already pending, if
\* any); the frame callback leaves none pending, makes the state inactive
\* iff at that time the top is >= -5 and the offset <= 5, else active, and
\* updates the theme color iff it changed the state.
C17_OneFramePerBurst ==
    [][(sticky = "always" /\ isIOSSafari) =>
         /\ \A s \in ScrollOffsets, top \in HeaderTops :
               (scrollListener /\ Scroll(s, top)) =>
                  /\ UNCHANGED stickyState
                  /\ Cardinality(frames') = 1
                  /\ frames # {} => frames' = frames
         /\ \A s \in ScrollOffsets, top \in HeaderTops :
               safariFrame(s, top) =>
                  /\ frames' = {}
                  /\ stickyState' = IF top >= -5 /\ s <= 5
                                    THEN "inactive" ELSE "active"
                  /\ effects' = IF stickyState' # stickyState
                                THEN SafariThemeColor ELSE {}]_vars

\* The frame callback made the header inactive from the geometry at its
\* own time: the last scroll event was at offset 500.
C17_Witness ==
    /\ sticky = "always"
    /\ isIOSSafari
    /\ frames = {}
    /\ stickyState = "inactive"
    /\ lastScrollTop = 500
    /\ effects = SafariThemeColor

\* C18: in always mode every handled scroll event sets the direction to
\* none if the top is >= 0, else to up if the offset is below the previous
\* one, else to down, and records the offset as lastScrollTop.
C18_AlwaysModeDirection ==
    [][(sticky = "always" /\ scrollListener) =>
         \A s \in ScrollOffsets, top \in HeaderTops :
            Scroll(s, top) =>
               /\ scrollDirection' = IF top >= 0 THEN "none"
                                     ELSE IF s < lastScrollTop THEN "up"
                                     ELSE "down"
               /\ lastScrollTop' = s]_vars

\* A scroll event in always mode wrote the direction down at offset 0:
\* the offset was unchanged.
C18_Witness ==
    /\ sticky = "always"
    /\ connected
    /\ scrollDirection = "down"
    /\ lastScrollTop = 0

\* C19 as stated: after every scroll event delivered to the listener,
\* lastScrollTop is the offset of that event.
C19_Original ==
    [][\A s \in ScrollOffsets, top \in HeaderTops :
          (scrollListener /\ Scroll(s, top)) => lastScrollTop' = s]_vars

\* C19 as amended: lastScrollTop changes only in scroll events; after an
\* event handled in always mode or in scroll-up mode while offscreen it is
\* the offset of that event, and an event delivered in scroll-up mode while
\* not offscreen leaves it unchanged.
C19_LastProcessedOffset ==
    [][/\ (lastScrollTop' # lastScrollTop) =>
             \E s \in ScrollOffsets, top \in HeaderTops :
                 scrollListener /\ Scroll(s, top)
       /\ \A s \in ScrollOffsets, top \in HeaderTops :
             (scrollListener /\ Scroll(s, top)) =>
                 lastScrollTop' = IF sticky = "always" \/ offscreen
                                  THEN s ELSE lastScrollTop]_vars

\* The header was reset at the top at offset 300 and is no longer
\* offscreen: later scroll events leave lastScrollTop at 300.
C19_Witness ==
    /\ sticky = "scroll-up"
    /\ connected
    /\ ~offscreen
    /\ stickyState = "inactive"
    /\ lastScrollTop = 300

\* C20: in scroll-up mode a scroll event delivered while offscreen is false
\* changes neither the state, the direction, data-animating, offscreen,
\* lastScrollTop nor the pending timers and frames.
C20_SkippedWhenNotOffscreen ==
    [][(sticky = "scroll-up" /\ ~offscreen) =>
         \A s \in ScrollOffsets, top \in HeaderTops :
            Scroll(s, top) => UNCHANGED <<stickyVars, schedVars>>]_vars

\* The header is attached in scroll-up mode and not offscreen, and the last
\* step was a call of the menu update: a scroll event is a step from here.
C20_Witness ==
    /\ sticky = "scroll-up"
    /\ scrollListener
    /\ ~offscreen
    /\ stickyState = "inactive"
    /\ effects # {}

\* C21 as stated: a header attached with a sticky attribute observes its
\* intersection with the viewport and listens to scroll events, on the
\* first attach and on every later one.
C21_ReattachedLikeFresh ==
    (connected /\ sticky # "absent") => (ioObserving /\ scrollListener)

\* C22 as stated: data-animating is present only while the hide timer is
\* pending, whether the header is attached or not.
C22_AnimatingOnlyWhilePending == animating => HideTimerPending

\* The calls of #updateMenuVisibility a step can make.
MenuUpdates ==
    {"resizeObserver.updateMenuVisibility",
     "handleOverflowMinimum.updateMenuVisibility"}

\* The recorded width, the inline menu and the drawer container agree.
MenuStateAgrees ==
    /\ (menuDrawerHiddenWidth # Null) <=> headerMenuHidden
    /\ headerMenuHidden <=> ~drawerDesktopHidden

\* C23: every step that updates the menu visibility, or changes any of the
\* three parts of the menu state, ends in a state where menuDrawerHiddenWidth
\* is non-null exactly if the inline menu is hidden, exactly if the drawer
\* container is shown; hence they agree from the first update on.
C23_MenuStateAgrees ==
    [][(menuVars' # menuVars \/ effects' \cap MenuUpdates # {})
          => MenuStateAgrees']_vars

\* An overflowMinimum(true) event has hidden the menu of a header whose
\* size was reported before, and the three parts agree on hidden.
C23_Witness ==
    /\ connected
    /\ headerHeight = Px(64)
    /\ effects = {"handleOverflowMinimum.updateMenuVisibility"}
    /\ menuDrawerHiddenWidth = 2 * WidthStep
    /\ headerMenuHidden
    /\ ~drawerDesktopHidden

\* ------------------------------------------------------------------------
\* Companion logic: the size of the header group's children
\* ------------------------------------------------------------------------

\* Mutant of ShouldObserve: the header is not excluded.
ShouldObserve_header(element, hdr) == IsHTMLElement(element)

\* The test of both loops before resizeObserver.observe(element).
ShouldObserve(element, hdr) == ~(element = hdr \/ ~IsHTMLElement(element))

\* The loop over headerGroup.children, in the callback and in the mutation
\* observer's callback.
ObserveChildren(hdr) ==
    sizeObserved' =
        sizeObserved \cup {e \in groupChildren : ShouldObserve(e, hdr)}

\* The page before DOMContentLoaded: it has a header or none, a header
\* group or none, and the group has the children of the markup.
DocumentParsed ==
    /\ documentLoaded = FALSE
    /\ header \in {NoElement, HeaderElement}
    /\ headerGroup \in {NoElement, GroupElement}
    /\ groupChildren \in SUBSET GroupElements
    /\ headerGroup = NoElement => groupChildren = {}
    /\ header = NoElement => HeaderElement \notin groupChildren
    /\ sizeObserved = {}
    /\ mutationObserving = FALSE
    /\ mutationRecords = FALSE

\* The callback passed to onDocumentLoaded.
onDocumentLoaded ==
    /\ ~documentLoaded
    /\ documentLoaded' = TRUE
    /\ IF headerGroup # NoElement
       THEN /\ ObserveChildren(header)
            /\ mutationObserving' = TRUE
       ELSE UNCHANGED <<sizeObserved, mutationObserving>>
    /\ UNCHANGED <<outsideGroup, header, headerGroup, groupChildren, mutationRecords>>

\* A script adds element e to the header group; an observing mutation
\* observer gets a childList record.
appendChild(e) ==
    /\ headerGroup # NoElement
    /\ e \notin groupChildren
    /\ e = HeaderElement => header # NoElement
    /\ groupChildren' = groupChildren \cup {e}
    /\ mutationRecords' = (mutationRecords \/ mutationObserving)
    /\ UNCHANGED <<outsideGroup, documentLoaded, header, headerGroup, sizeObserved,
                   mutationObserving>>

\* A script removes child e from the header group; the size observation of
\* a removed element stays.
removeChild(e) ==
    /\ e \in groupChildren
    /\ groupChildren' = groupChildren \ {e}
    /\ mutationRecords' = (mutationRecords \/ mutationObserving)
    /\ UNCHANGED <<outsideGroup, documentLoaded, header, headerGroup, sizeObserved,
                   mutationObserving>>

\* The mutation observer's callback, run with the queued records (all of
\* type childList).
mutationCallback ==
    /\ mutationRecords
    /\ mutationRecords' = FALSE
    /\ ObserveChildren(header)
    /\ UNCHANGED <<outsideGroup, documentLoaded, header, headerGroup, groupChildren,
                   mutationObserving>>

GroupNext ==
    \/ onDocumentLoaded
    \/ \E e \in GroupElements : appendChild(e)
    \/ \E e \in GroupElements : removeChild(e)
    \/ mutationCallback

\* The header element, detached, on a page whose sticky attribute is absent.
HeaderDetached ==
    /\ Init
    /\ sticky = "absent"
    /\ platform = [ua |-> {"Safari"}, ms |-> FALSE]

GroupInit == HeaderDetached /\ DocumentParsed /\ NoAccordions /\ NoIndicator

GroupSpec == GroupInit /\ [][GroupNext]_allVars

AccordionState ==
    [open |-> open, animation |-> animation, animations |-> animations]

\* The positions of sequence q.
Positions(q) == 1..Len(q)

\* Sequence q without its element at position i.
Without(q, i) == [k \in 1..(Len(q) - 1) |-> IF k < i THEN q[k] ELSE q[k + 1]]

\* The position of the Animation object id.
PositionOf(q, id) == CHOOSE i \in Positions(q) : q[i].id = id

\* this.#animation.cancel(): a running animation becomes idle and its
\* cancel event is queued.
Cancel(st, id) ==
    LET q == st.animations
        i == PositionOf(q, id) IN
    IF \E k \in Positions(q) : q[k].id = id /\ ~q[k].canceled
    THEN [st EXCEPT !.animations =
             Append(Without(q, i), [q[i] EXCEPT !.canceled = TRUE])]
    ELSE st

\* if (this.#animation) this.#animation.cancel()
CancelRunning(st, a) ==
    IF st.animation[a] # NoAnimation THEN Cancel(st, st.animation[a]) ELSE st

\* this.#animation = content.animate(...), with its two handlers.
ContentAnimate(st, a, closes) ==
    LET id == FreshId({st.animations[i].id : i \in Positions(st.animations)})
    IN [st EXCEPT !.animations = Append(@, [id |-> id, owner |-> a,
                                            closes |-> closes,
                                            canceled |-> FALSE]),
                  !.animation[a] = id]

\* #animateOpen() of accordion a (its content exists).
animateOpen(st, a) ==
    LET cancelled == CancelRunning(st, a)
        opened == [cancelled EXCEPT !.open[a] = TRUE]
    IN ContentAnimate(opened, a, FALSE)

\* #animateClose() of accordion a (its content exists).
animateClose(st, a) == ContentAnimate(CancelRunning(st, a), a, TRUE)

\* The body of the loop of #closeSiblings for one sibling.
CloseSibling(st, sibling) ==
    IF st.open[sibling]
    THEN IF supportsInterpolateSize
         THEN [st EXCEPT !.open[sibling] = FALSE]
         ELSE animateClose(st, sibling)
    ELSE st

RECURSIVE CloseEach(_, _)
CloseEach(st, siblings) ==
    IF siblings = {} THEN st
    ELSE LET sibling == CHOOSE x \in siblings : TRUE
         IN CloseEach(CloseSibling(st, sibling), siblings \ {sibling})

\* #closeSiblings() of accordion a: the other accordion-custom elements the
\* parent holds.
closeSiblings(st, a) ==
    CloseEach(st, {sibling \in Accordions \ {a} : attached[sibling]})

\* The accordion is disabled at the current breakpoint.
Disabled(a) ==
    \/ isMobile /\ dataset[a].disableOnMobile
    \/ ~isMobile /\ dataset[a].disableOnDesktop

\* handleClick(event) of accordion a: the state it leaves and whether it
\* called event.preventDefault().
handleClick(st, a) ==
    IF Disabled(a) THEN [st |-> st, prevented |-> TRUE]
    ELSE IF supportsInterpolateSize
    THEN [st |-> IF ~st.open[a] THEN closeSiblings(st, a) ELSE st,
          prevented |-> FALSE]
    ELSE [st |-> IF st.open[a]
                 THEN animateClose(st, a)
                 ELSE animateOpen(closeSiblings(st, a), a),
          prevented |-> TRUE]

\* The value #setDefaultOpenState() gives details.open at breakpoint mobile.
DefaultOpen(a, mobile) ==
    \/ mobile /\ dataset[a].openByDefaultOnMobile
    \/ ~mobile /\ dataset[a].openByDefaultOnDesktop

\* The action writes the state st, which has at most MaxAnimations
\* Animation objects.
Becomes(st) ==
    /\ Len(st.animations) <= MaxAnimations
    /\ open' = st.open
    /\ animation' = st.animation
    /\ animations' = st.animations

\* The page as parsed: each accordion has the attributes of one of the
\* datasets, and none is attached yet.
AccordionsParsed ==
    /\ supportsInterpolateSize \in BOOLEAN
    /\ isMobile \in BOOLEAN
    /\ dataset \in [Accordions -> Datasets]
    /\ Constructed

\* connectedCallback() of accordion a.  A listener added with an aborted
\* signal is not registered.
accordionConnected(a) ==
    /\ ~attached[a]
    /\ attached' = [attached EXCEPT ![a] = TRUE]
    /\ open' = [open EXCEPT ![a] = DefaultOpen(a, isMobile)]
    /\ listening' = [listening EXCEPT ![a] = ~aborted[a]]
    /\ lastInput' = [kind |-> "attach", target |-> a]
    /\ UNCHANGED <<outsideAccordion, supportsInterpolateSize, isMobile,
                   dataset, aborted, animation, animations>>

\* disconnectedCallback() of accordion a.
accordionDisconnected(a) ==
    /\ attached[a]
    /\ attached' = [attached EXCEPT ![a] = FALSE]
    /\ aborted' = [aborted EXCEPT ![a] = TRUE]
    /\ listening' = [listening EXCEPT ![a] = FALSE]
    /\ Becomes([CancelRunning(AccordionState, a)
                   EXCEPT !.animation[a] = NoAnimation])
    /\ lastInput' = [kind |-> "other", target |-> "none"]
    /\ UNCHANGED <<outsideAccordion, supportsInterpolateSize, isMobile,
                   dataset>>

\* The user clicks the summary of the attached accordion a: the click
\* listener runs if it is registered, and unless it prevented the default
\* the details element toggles.
summaryClick(a) ==
    LET handled == IF listening[a]
                   THEN handleClick(AccordionState, a)
                   ELSE [st |-> AccordionState, prevented |-> FALSE]
        toggled == IF handled.prevented
                   THEN handled.st
                   ELSE [handled.st EXCEPT !.open[a] = ~open[a]]
    IN /\ attached[a]
       /\ Becomes(toggled)
       /\ lastInput' =
             IF listening[a] /\ ~Disabled(a) /\ ~open[a]
             THEN [kind |-> "open", target |-> a]
             ELSE [kind |-> "other", target |-> "none"]
       /\ UNCHANGED <<outsideAccordion, supportsInterpolateSize, isMobile,
                      dataset, attached, aborted, listening>>

\* #handleKeyDown(event) for the Escape key on an accordion that closes
\* with Escape (for any other key and accordion it does nothing).
escapeKey(a) ==
    /\ attached[a]
    /\ listening[a]
    /\ dataset[a].closeWithEscape
    /\ Becomes(IF supportsInterpolateSize
               THEN [AccordionState EXCEPT !.open[a] = FALSE]
               ELSE animateClose(AccordionState, a))
    /\ lastInput' = [kind |-> "other", target |-> "none"]
    /\ UNCHANGED <<outsideAccordion, supportsInterpolateSize, isMobile,
                   dataset, attached, aborted, listening>>

\* The viewport crosses the breakpoint: mediaQueryLarge dispatches change
\* and #handleMediaQueryChange runs on every accordion that listens.
mediaQueryChange ==
    /\ isMobile' = ~isMobile
    /\ open' = [a \in Accordions |->
                   IF listening[a] THEN DefaultOpen(a, ~isMobile)
                   ELSE open[a]]
    /\ lastInput' = [kind |-> "breakpoint", target |-> "none"]
    /\ UNCHANGED <<outsideAccordion, supportsInterpolateSize, dataset,
                   attached, aborted, listening, animation, animations>>

\* The Animation object at position i finishes now: all animations last
\* 200 ms, so those started before it have finished, and the cancel events
\* queued before it started were dispatched with the next frame.
MayFinish(i) == i = 1 /\ ~animations[i].canceled

\* Animation object i finishes and its onfinish handler runs.
animationFinish(i) ==
    LET an == animations[i] IN
    /\ MayFinish(i)
    /\ animations' = Without(animations, i)
    /\ open' = IF an.closes THEN [open EXCEPT ![an.owner] = FALSE] ELSE open
    /\ animation' = [animation EXCEPT ![an.owner] = NoAnimation]
    /\ UNCHANGED <<outsideAccordion, supportsInterpolateSize, isMobile,
                   dataset, attached, aborted, listening, lastInput>>

\* The queued cancel event of Animation object i is dispatched, after the
\* cancel events queued before it, and its oncancel handler runs.
animationCancel(i) ==
    LET an == animations[i] IN
    /\ an.canceled
    /\ \A k \in 1..(i - 1) : ~animations[k].canceled
    /\ animations' = Without(animations, i)
    /\ animation' = [animation EXCEPT ![an.owner] = NoAnimation]
    /\ UNCHANGED <<outsideAccordion, supportsInterpolateSize, isMobile,
                   dataset, attached, aborted, listening, open, lastInput>>

AccordionNext ==
    \/ \E a \in Accordions : accordionConnected(a)
    \/ \E a \in Accordions : accordionDisconnected(a)
    \/ \E a \in Accordions : summaryClick(a)
    \/ \E a \in Accordions : escapeKey(a)
    \/ mediaQueryChange
    \/ \E i \in Positions(animations) : animationFinish(i)
    \/ \E i \in Positions(animations) : animationCancel(i)

AccordionInit ==
    HeaderDetached /\ NoHeaderGroup /\ AccordionsParsed /\ NoIndicator

AccordionSpec == AccordionInit /\ [][AccordionNext]_allVars

\* No animation runs and no cancel event is queued.
Settled == animations = <<>>

\* C25 as stated: after a click that opened a closed accordion enabled at
\* the breakpoint, with no other input since, once all animations have
\* settled the clicked accordion is open and no other accordion of the
\* parent is open.
C25_Exclusive ==
    (lastInput.kind = "open" /\ Settled) =>
        /\ open[lastInput.target]
        /\ \A a \in Accordions \ {lastInput.target} :
              attached[a] => ~open[a]

\* C26 as stated: on the fallback path the animation that runs on an
\* accordion, if any, is the one #animation refers to, and #animation is
\* null when none runs.
C26_HandleIsTheRunningOne ==
    ~supportsInterpolateSize =>
        \A a \in Accordions :
            {animations[i].id :
                i \in {k \in Positions(animations) :
                          /\ animations[k].owner = a
                          /\ ~animations[k].canceled}} =
                IF animation[a] = NoAnimation THEN {} ELSE {animation[a]}

\* C27 as stated: after the attach of an accordion, and after a breakpoint
\* change for every accordion that was attached once and is listening, with
\* no input since and all animations settled, details.open has the default
\* of the breakpoint.
C27_DefaultOpenState ==
    Settled =>
        /\ lastInput.kind = "attach" =>
              open[lastInput.target] = DefaultOpen(lastInput.target, isMobile)
        /\ lastInput.kind = "breakpoint" =>
              \A a \in Accordions :
                  listening[a] => open[a] = DefaultOpen(a, isMobile)

\* ------------------------------------------------------------------------
\* Scroll indicator (ScrollIndicator)
\* ------------------------------------------------------------------------

\* Maximum scrollable distances of the page, and scroll offsets, in pixels.
MaxScrolls == {0, 100, 200}
ScrollYs == {0, 50, 60, 70, 75, 95, 100, 150, 190, 200}

\* progress >= pct / 100, for the progress handleScroll computes from
\* scrollY y and maximum scrollable distance m.
ProgressAtLeast(y, m, pct) ==
    LET clamped == IF y < 0 THEN 0 ELSE IF y > m THEN m ELSE y
    IN m > 0 /\ 100 * clamped >= pct * m

\* progress, in thousandths.
Progress(y, m) ==
    LET clamped == IF y < 0 THEN 0 ELSE IF y > m THEN m ELSE y
    IN IF m > 0 THEN (1000 * clamped) \div m ELSE 0

\* The opacity handleScroll computes, in thousandths, rounded up: zero
\* exactly when 1 - (progress - 0.60) / 0.15 is not positive.
Opacity(y, m) ==
    IF ~ProgressAtLeast(y, m, 60) THEN 1000
    ELSE LET num == 1000 * (75 * m - 100 * y)
             den == 15 * m
             up == (num + den - 1) \div den
         IN IF num <= 0 THEN 0 ELSE IF up > 1000 THEN 1000 ELSE up

\* handleScroll() with window.scrollY y and maximum scrollable distance m.
handleScroll(y, m) ==
    LET atBottom == ProgressAtLeast(y, m, 95) IN
    /\ strokeDashoffset' = 1000 - Progress(y, m)
    /\ isAtBottom' = atBottom
    /\ atBottomClass' = IF atBottom # isAtBottom THEN atBottom
                        ELSE atBottomClass
    /\ opacity' = Opacity(y, m)
    /\ pointerEvents' = IF Opacity(y, m) > 0 THEN "auto" ELSE "none"

\* The page with its #scrollIndicator element, before the script runs.
IndicatorParsed ==
    /\ constructed = FALSE
    /\ scrollY = 0
    /\ maxScroll \in MaxScrolls
    /\ strokeDashoffset = Null
    /\ isAtBottom = FALSE
    /\ atBottomClass = FALSE
    /\ opacity = Null
    /\ pointerEvents = "unset"
    /\ scrollTarget = Null

\* initScrollIndicator(): the constructor, init() and its first handleScroll().
initScrollIndicator ==
    /\ ~constructed
    /\ constructed' = TRUE
    /\ handleScroll(scrollY, maxScroll)
    /\ UNCHANGED <<outsideIndicator, scrollY, maxScroll, scrollTarget>>

\* The window scrolls to offset y (by the user or by a smooth scrollTo) and
\* dispatches scroll.
windowScroll(y) ==
    /\ y # scrollY
    /\ y <= maxScroll
    /\ scrollY' = y
    /\ IF constructed
       THEN handleScroll(y, maxScroll)
       ELSE UNCHANGED <<strokeDashoffset, isAtBottom, atBottomClass, opacity,
                        pointerEvents>>
    /\ UNCHANGED <<outsideIndicator, constructed, maxScroll, scrollTarget>>

\* The page or the viewport changes height, so that the maximum scrollable
\* distance becomes m; scroll is dispatched only if the scroll offset had
\* to be clamped.
layoutChange(m) ==
    /\ m # maxScroll
    /\ maxScroll' = m
    /\ IF scrollY > m
       THEN /\ scrollY' = m
            /\ IF constructed
               THEN handleScroll(m, m)
               ELSE UNCHANGED <<strokeDashoffset, isAtBottom, atBottomClass,
                                opacity, pointerEvents>>
       ELSE UNCHANGED <<scrollY, strokeDashoffset, isAtBottom, atBottomClass,
                        opacity, pointerEvents>>
    /\ UNCHANGED <<outsideIndicator, constructed, scrollTarget>>

\* handleClick()
indicatorHandleClick ==
    scrollTarget' = IF isAtBottom THEN 0 ELSE maxScroll

\* The user clicks the indicator, which takes pointer events.
indicatorClick ==
    /\ constructed
    /\ pointerEvents # "none"
    /\ indicatorHandleClick
    /\ UNCHANGED <<outsideIndicator, constructed, scrollY, maxScroll,
                   strokeDashoffset, isAtBottom, atBottomClass, opacity,
                   pointerEvents>>

IndicatorNext ==
    \/ initScrollIndicator
    \/ \E y \in ScrollYs : windowScroll(y)
    \/ \E m \in MaxScrolls : layoutChange(m)
    \/ indicatorClick

IndicatorInit ==
    HeaderDetached /\ NoHeaderGroup /\ NoAccordions /\ IndicatorParsed

IndicatorSpec == IndicatorInit /\ [][IndicatorNext]_allVars

\* C28 as stated: a user click on the indicator scrolls to the top when the
\* scroll progress is at least 95% and to the bottom otherwise.
C28_ClickFollowsProgress ==
    [][indicatorClick =>
          scrollTarget' = IF ProgressAtLeast(scrollY, maxScroll, 95)
                          THEN 0 ELSE maxScroll]_allVars

\* The indicator never takes pointer events while isAtBottom is set: no
\* click of the user makes handleClick scroll to the top.
ScrollToTopUnreachable ==
    ~(constructed /\ pointerEvents = "auto" /\ isAtBottom)

====
